---- MODULE Spec2Model ----
(***************************************************************************)
(* Model of luigi/contrib/sge_runner.py: the compute-node bootstrap that   *)
(* reads its argument vector, optionally extracts packages.tar, unpickles  *)
(* the staged task and runs its work() method.                             *)
(*                                                                         *)
(* A run of main() is one behaviour.  pc is the position of the run in     *)
(* main / _do_work_on_compute_node; the file system, the process working   *)
(* directory, sys.path and the two output streams are the shared state.    *)
(* Paths are sequences of components; an absolute path is the sequence of  *)
(* its components below the root.                                          *)
(***************************************************************************)
EXTENDS Integers, Sequences, FiniteSets, TLC

\* ------------------------------------------------------------------ bounds
\* longest argument vector handed to main
MaxArgs == 6
\* largest number of entries in packages.tar
MaxEntries == 2

\* ------------------------------------------------------------------ inputs
Prog == "sge_runner.py"
Flags == {"--debug", "--tarball"}
\* the ways the staging directory is named on the command line
DirArgs == {"/stage", "stage", "."}
ProjArg == "proj"
IdArg == "7"
NoVal == "<unset>"
\* names of the archive entries, in archive order
EntryNames == <<"helper.mod", "a.mod", "b.mod", "c.mod">>
\* the working directory the process is started in
StartCwd == <<"home">>
\* the directories the control node may have staged the job in
StageDirs == {<<"stage">>, <<"home", "stage">>, <<"home">>}

Range(s) == {s[i] : i \in 1..Len(s)}

\* number of non-flag arguments after the program name
NumPos(v) == Cardinality({i \in 2..Len(v) : v[i] \notin Flags})

\* the tokens that may follow v: a flag, or the next positional
NextTokens(v) ==
  Flags \cup (CASE NumPos(v) = 0 -> DirArgs
                [] NumPos(v) = 1 -> {ProjArg}
                [] NumPos(v) = 2 -> {IdArg}
                [] OTHER -> {})

RECURSIVE Vectors(_)
Vectors(n) ==
  IF n = 0 THEN {<< >>}
  ELSE IF n = 1 THEN {<<Prog>>}
  ELSE UNION {{Append(v, t) : t \in NextTokens(v)} : v \in Vectors(n - 1)}

\* argument vectors: the positionals in order, flags anywhere, possibly cut short
ArgVectors == UNION {Vectors(n) : n \in 0..MaxArgs}

\* ------------------------------------------------------------------- paths
\* a path string as (absolute?, components); "." and the empty string, the
\* current directory, have no components
PathOf(s) ==
  CASE s = "/stage" -> [abs |-> TRUE, comps |-> <<"stage">>]
    [] s \in {".", ""} -> [abs |-> FALSE, comps |-> << >>]
    [] OTHER -> [abs |-> FALSE, comps |-> <<s>>]

\* os.path.join(p, name) for a relative name
Join(p, name) == [abs |-> p.abs, comps |-> Append(p.comps, name)]

\* the absolute path the operating system resolves p to when the working
\* directory is d
Resolve(d, p) == IF p.abs THEN p.comps ELSE d \o p.comps

\* "{random_id}.job-instance.pickle".format(random_id=id)
BlobName(id) ==
  CASE id = "7" -> "7.job-instance.pickle"
    [] id = "proj" -> "proj.job-instance.pickle"
    [] id = "--debug" -> "--debug.job-instance.pickle"
    [] id = "--tarball" -> "--tarball.job-instance.pickle"
    [] OTHER -> "other.job-instance.pickle"

\* -------------------------------------------------------------- exceptions
NoExc == [cls |-> "none", stage |-> "none"]
Exc(c, s) == [cls |-> c, stage |-> s]

\* the classes caught by "except Exception": SystemExit and
\* KeyboardInterrupt derive from BaseException only
IsException(e) == e.cls \notin {"none", "SystemExit", "KeyboardInterrupt"}

VARIABLES
  args,          \* the argument vector
  dirs,          \* existing directories (absolute paths)
  files,         \* existing files (absolute paths)
  files0,        \* the files staged by the control node, as at process start
  tarValid,      \* packages.tar is a readable archive
  tarEntries,    \* the entries of packages.tar, in order
  cwd,           \* process working directory
  sysPath,       \* sys.path
  logLevel,      \* root logger threshold
  stdout, stderr,
  accessLog,     \* file system calls made so far
  pc,
  debug, tarball, start_time,
  work_dir, project_dir, random_id,   \* locals of main
  savedCwd,      \* local cwd of _do_work_on_compute_node
  job,           \* the unpickled task
  exc,           \* the exception in flight / handled
  propagated,    \* the exception that left main
  extractOutcome,
  loadCalls, workCalls,
  cwdAtWork      \* working directory seen by job.work()

world == <<args, dirs, files0, tarValid, tarEntries>>
locals == <<debug, tarball, start_time, work_dir, project_dir, random_id, savedCwd, job>>
vars == <<args, dirs, files, files0, tarValid, tarEntries, cwd, sysPath, logLevel,
          stdout, stderr, accessLog, pc, debug, tarball, start_time,
          work_dir, project_dir, random_id, savedCwd, job, exc, propagated,
          extractOutcome, loadCalls, workCalls, cwdAtWork>>

\* os.path.exists
Exists(p) == p \in dirs \/ p \in files

Logged(op, p) == Append(accessLog, [op |-> op, path |-> p])

\* the files staged in directory d
Staged(d, withTar, withBlob) ==
  (IF withTar THEN {Append(d, "packages.tar")} ELSE {})
  \cup (IF withBlob THEN {Append(d, BlobName(IdArg))} ELSE {})

Init ==
  /\ args \in ArgVectors
  /\ \E d \in StageDirs \cup {<< >>}, withTar \in BOOLEAN, withBlob \in BOOLEAN :
       /\ dirs = {<< >>, StartCwd} \cup {d}
       /\ files = IF d = << >> THEN {} ELSE Staged(d, withTar, withBlob)
       /\ files0 = files
       /\ IF withTar /\ d # << >>
            THEN /\ tarValid \in BOOLEAN
                 /\ \E k \in 0..MaxEntries : tarEntries = SubSeq(EntryNames, 1, k)
            ELSE /\ tarValid = FALSE
                 /\ tarEntries = << >>
  /\ cwd = StartCwd
  /\ sysPath = <<"script_dir">>
  /\ logLevel = NoVal
  /\ stdout = << >>
  /\ stderr = << >>
  /\ accessLog = << >>
  /\ pc = "start"
  /\ debug = FALSE
  /\ tarball = FALSE
  /\ start_time = NoVal
  /\ work_dir = NoVal
  /\ project_dir = NoVal
  /\ random_id = NoVal
  /\ savedCwd = << >>
  /\ job = NoVal
  /\ exc = NoExc
  /\ propagated = NoExc
  /\ extractOutcome = "none"
  /\ loadCalls = 0
  /\ workCalls = 0
  /\ cwdAtWork = << >>

\* ----------------------------------------------------------- main, 115-134
\* str(e), as print(e) writes it: the sequence of the fragments of the text,
\* a value formatted into a message being a fragment of its own.  The
\* message of the assert of line 126 is one literal.
Message_naming(e) ==
  IF e.cls = "AssertionError"
    THEN <<"First argument to sge_runner.py must be a directory that exists: ",
           work_dir>>
    ELSE <<e.cls>>
Message(e) ==
  CASE e.cls = "AssertionError" ->
         <<"First argument to sge_runner.py must be a directory that exists">>
    [] e.cls = "IndexError" -> <<"list index out of range">>
    [] OTHER -> <<e.cls>>

Render(e) == [exc |-> e, text |-> Message(e)]

\* the directories the entries of sys.path name while the working directory
\* is d; the entry '' names the working directory itself
SearchRoots(d) == {Resolve(d, PathOf(sysPath[i])) : i \in 1..Len(sysPath)}

\* where control goes when e is raised inside the try block (line 131)
RaiseTarget_unhandled(e) == "failed"
RaiseTarget(e) == IF IsException(e) THEN "except" ELSE "failed"

\* an exception the handler does not catch leaves main as it is
Escaped(e) == IF e = NoExc \/ IsException(e) THEN propagated ELSE e

\* a diagnostic line is written to the error stream only under --debug
\* (lines 117-119, 54-56, 63-65)
DebugLine_always(flag, err, line) == Append(err, line)
DebugLine(flag, err, line) == IF flag THEN Append(err, line) ELSE err

\* lines 116-122
ParseFlags ==
  /\ pc = "start"
  /\ debug' = ("--debug" \in Range(args))
  /\ start_time' = IF debug' THEN "t0" ELSE "None"
  /\ stderr' = DebugLine(debug', stderr, "starting at")
  /\ tarball' = ("--tarball" \in Range(args))
  /\ pc' = "logging"
  /\ UNCHANGED <<world, files, cwd, sysPath, logLevel, stdout, accessLog,
                 work_dir, project_dir, random_id, savedCwd, job, exc,
                 propagated, extractOutcome, loadCalls, workCalls, cwdAtWork>>

\* logging.basicConfig(level=logging.WARN), line 124
BasicConfig_skipped(level) == level
BasicConfig(level) == "WARN"

\* line 124
ConfigureLogging ==
  /\ pc = "logging"
  /\ logLevel' = BasicConfig(logLevel)
  /\ pc' = "precheck"
  /\ UNCHANGED <<world, files, cwd, sysPath, stdout, stderr, accessLog, locals,
                 exc, propagated, extractOutcome, loadCalls, workCalls, cwdAtWork>>

\* args[i], Python's zero-based indexing (lines 125, 127, 129)
ArgAt_shifted(v, i) == v[i]
ArgAt(v, i) == v[i + 1]

\* the assert of line 126
PreconditionHolds_always(p) == TRUE
PreconditionHolds(p) == Exists(p)

\* lines 125-126
PreconditionCheck ==
  /\ pc = "precheck"
  /\ IF Len(args) < 2
       THEN /\ exc' = Exc("IndexError", "args")
            /\ pc' = RaiseTarget(exc')
            /\ UNCHANGED <<work_dir, accessLog>>
       ELSE /\ work_dir' = ArgAt(args, 1)
            /\ accessLog' = Logged("exists", Resolve(cwd, PathOf(work_dir')))
            /\ IF PreconditionHolds(Resolve(cwd, PathOf(work_dir')))
                 THEN /\ pc' = "project"
                      /\ exc' = exc
                 ELSE /\ exc' = Exc("AssertionError", "precondition")
                      /\ pc' = RaiseTarget(exc')
  /\ propagated' = Escaped(exc')
  /\ UNCHANGED <<world, files, cwd, sysPath, logLevel, stdout, stderr,
                 debug, tarball, start_time, project_dir, random_id, savedCwd,
                 job, extractOutcome, loadCalls, workCalls, cwdAtWork>>

\* lines 127-129
ReadPositionals ==
  /\ pc = "project"
  /\ IF Len(args) < 3
       THEN /\ exc' = Exc("IndexError", "args")
            /\ pc' = RaiseTarget(exc')
            /\ UNCHANGED <<project_dir, sysPath, random_id>>
       ELSE /\ project_dir' = ArgAt(args, 2)
            /\ sysPath' = Append(sysPath, project_dir')
            /\ IF Len(args) < 4
                 THEN /\ exc' = Exc("IndexError", "args")
                      /\ pc' = RaiseTarget(exc')
                      /\ UNCHANGED random_id
                 ELSE /\ random_id' = ArgAt(args, 3)
                      /\ pc' = "enter"
                      /\ exc' = exc
  /\ propagated' = Escaped(exc')
  /\ UNCHANGED <<world, files, cwd, logLevel, stdout, stderr, accessLog,
                 debug, tarball, start_time, work_dir, savedCwd, job,
                 extractOutcome, loadCalls, workCalls, cwdAtWork>>

\* ------------------------------------- _do_work_on_compute_node, 47-69
\* if tarball: the extractor is called only under --tarball (lines 51-53)
AfterEntry_always(flag) == "extract"
AfterEntry(flag) == IF flag THEN "extract" ELSE "extracted"

\* lines 50-51 (called from line 130)
EnterDoWork ==
  /\ pc = "enter"
  /\ savedCwd' = cwd
  /\ pc' = AfterEntry(tarball)
  /\ UNCHANGED <<world, files, cwd, sysPath, logLevel, stdout, stderr,
                 accessLog, debug, tarball, start_time, work_dir, project_dir,
                 random_id, job, exc, propagated, extractOutcome, loadCalls,
                 workCalls, cwdAtWork>>

\* ------------------------------------- _extract_packages_archive, 72-87
\* os.chdir(curdir), line 87
CwdAfterExtract_stay(curdir, stagedir) == stagedir
CwdAfterExtract(curdir, stagedir) == curdir

\* lines 84-85
WithEmptyEntry(sp) == IF "" \in Range(sp) THEN sp ELSE <<"">> \o sp

\* the files tar.extract(tarinfo) has written under d for the first k entries
Extracted(d, k) == {Append(d, tarEntries[i]) : i \in 1..k}

\* os.path.exists(package_file), line 74
ArchivePresent_always(p) == TRUE
ArchivePresent(p) == Exists(p)

\* line 53 and the whole of lines 72-87
ExtractPackagesArchive ==
  /\ pc = "extract"
  /\ LET package_file == Join(PathOf(work_dir), "packages.tar")
         curdir == cwd
         stagedir == Resolve(cwd, PathOf(work_dir))
         opened == Resolve(stagedir, package_file)
     IN IF ~ArchivePresent(Resolve(cwd, package_file))
          THEN \* lines 74-75
               /\ accessLog' = Logged("exists", Resolve(cwd, package_file))
               /\ extractOutcome' = "absent"
               /\ pc' = "extracted"
               /\ UNCHANGED <<cwd, files, sysPath, exc, propagated>>
          ELSE /\ accessLog' =
                    Logged("exists", Resolve(cwd, package_file)) \o
                    <<[op |-> "chdir", path |-> stagedir],
                      [op |-> "taropen", path |-> opened]>>
               /\ IF opened \notin files
                    THEN \* tarfile.open raises, line 80
                         /\ exc' = Exc("IOError", "extract")
                         /\ pc' = RaiseTarget(exc')
                         /\ propagated' = Escaped(exc')
                         /\ extractOutcome' = "raised"
                         /\ cwd' = stagedir
                         /\ UNCHANGED <<files, sysPath>>
                    ELSE IF ~tarValid
                    THEN \* a damaged archive raises at line 80 or in the loop
                         /\ \E k \in 0..Len(tarEntries) :
                              /\ k = 0 \/ k < Len(tarEntries)
                              /\ files' = files \cup Extracted(stagedir, k)
                         /\ exc' = Exc("ReadError", "extract")
                         /\ pc' = RaiseTarget(exc')
                         /\ propagated' = Escaped(exc')
                         /\ extractOutcome' = "raised"
                         /\ cwd' = stagedir
                         /\ UNCHANGED sysPath
                    ELSE \* lines 81-87
                         /\ files' = files \cup Extracted(stagedir, Len(tarEntries))
                         /\ sysPath' = WithEmptyEntry(sysPath)
                         /\ cwd' = CwdAfterExtract(curdir, stagedir)
                         /\ extractOutcome' = "done"
                         /\ pc' = "extracted"
                         /\ UNCHANGED <<exc, propagated>>
  /\ UNCHANGED <<world, logLevel, stdout, stderr, locals, loadCalls,
                 workCalls, cwdAtWork>>

\* lines 54-59: the debug line, then os.chdir(work_dir)
ChdirStaging ==
  /\ pc = "extracted"
  /\ stderr' = DebugLine(debug, stderr, "extracted tar after")
  /\ LET stagedir == Resolve(cwd, PathOf(work_dir))
     IN /\ accessLog' = Logged("chdir", stagedir)
        /\ IF stagedir \in dirs
             THEN /\ cwd' = stagedir
                  /\ pc' = "open"
                  /\ UNCHANGED <<exc, propagated>>
             ELSE /\ exc' = Exc("OSError", "chdir")
                  /\ pc' = RaiseTarget(exc')
                  /\ propagated' = Escaped(exc')
                  /\ UNCHANGED cwd
  /\ UNCHANGED <<world, files, sysPath, logLevel, stdout, locals,
                 extractOutcome, loadCalls, workCalls, cwdAtWork>>

\* open(...) finds the file, line 60
CanOpen_always(p) == TRUE
CanOpen(p) == p \in files

\* lines 60-61
OpenBlob ==
  /\ pc = "open"
  /\ LET blob == Append(cwd, BlobName(random_id))
     IN /\ accessLog' = Logged("open", blob)
        /\ IF CanOpen(blob)
             THEN /\ pc' = "load"
                  /\ UNCHANGED <<exc, propagated>>
             ELSE /\ exc' = Exc("IOError", "open")
                  /\ pc' = RaiseTarget(exc')
                  /\ propagated' = Escaped(exc')
  /\ UNCHANGED <<world, files, cwd, sysPath, logLevel, stdout, stderr, locals,
                 extractOutcome, loadCalls, workCalls, cwdAtWork>>

\* what unpickling or the task's own code may raise
UserFailures == {"Error", "SystemExit"}

\* line 62: pickle.load(f) returns the task or raises
LoadBlob ==
  /\ pc = "load"
  /\ loadCalls' = loadCalls + 1
  /\ \/ /\ job' = "task"
        /\ pc' = "loaded"
        /\ UNCHANGED <<exc, propagated>>
     \/ \E c \in UserFailures :
          /\ exc' = Exc(c, "load")
          /\ pc' = RaiseTarget(exc')
          /\ propagated' = Escaped(exc')
          /\ UNCHANGED job
  /\ UNCHANGED <<world, files, cwd, sysPath, logLevel, stdout, stderr,
                 accessLog, debug, tarball, start_time, work_dir, project_dir,
                 random_id, savedCwd, extractOutcome, workCalls, cwdAtWork>>

\* os.chdir(cwd), line 68
CwdBeforeWork_stay(saved, current) == current
CwdBeforeWork(saved, current) == saved

\* lines 63-68: the debug line, then back to the saved directory
RestoreCwd ==
  /\ pc = "loaded"
  /\ stderr' = DebugLine(debug, stderr, "loaded pickled data after")
  /\ accessLog' = Logged("chdir", CwdBeforeWork(savedCwd, cwd))
  /\ cwd' = CwdBeforeWork(savedCwd, cwd)
  /\ pc' = "work"
  /\ UNCHANGED <<world, files, sysPath, logLevel, stdout, locals, exc,
                 propagated, extractOutcome, loadCalls, workCalls, cwdAtWork>>

\* line 69: job.work() returns or raises
DoWork ==
  /\ pc = "work"
  /\ workCalls' = workCalls + 1
  /\ cwdAtWork' = cwd
  /\ \/ /\ pc' = "success"
        /\ UNCHANGED <<exc, propagated>>
     \/ \E c \in UserFailures :
          /\ exc' = Exc(c, "work")
          /\ pc' = RaiseTarget(exc')
          /\ propagated' = Escaped(exc')
  /\ UNCHANGED <<world, files, cwd, sysPath, logLevel, stdout, stderr,
                 accessLog, locals, extractOutcome, loadCalls>>

\* ------------------------------------------------ the handler, 131-134
\* print(e), line 133
HandlerOutput_silent(out, e) == out
HandlerOutput(out, e) == Append(out, Render(e))

\* the bare raise of line 134 re-raises the exception being handled
Reraised_replaced(e) == Exc("RuntimeError", "handler")
Reraised(e) == e

\* the handler ends the run in the error state
PcAfterHandler_swallow == "success"
PcAfterHandler_hang == "handling"
PcAfterHandler == "failed"

\* lines 131-134
HandleException ==
  /\ pc = "except"
  /\ stdout' = HandlerOutput(stdout, exc)
  /\ propagated' = Reraised(exc)
  /\ pc' = PcAfterHandler
  /\ UNCHANGED <<world, files, cwd, sysPath, logLevel, stderr, accessLog,
                 locals, exc, extractOutcome, loadCalls, workCalls, cwdAtWork>>

Next ==
  \/ ParseFlags
  \/ ConfigureLogging
  \/ PreconditionCheck
  \/ ReadPositionals
  \/ EnterDoWork
  \/ ExtractPackagesArchive
  \/ ChdirStaging
  \/ OpenBlob
  \/ LoadBlob
  \/ RestoreCwd
  \/ DoWork
  \/ HandleException

Spec == Init /\ [][Next]_vars

\* the interpreter runs the single thread of main until it returns or raises
FairSpec == Spec /\ WF_vars(Next)

\* ================================================================ claims
\* the staging directory named by args[1], as the process resolves it at start
StageDirOf(v) == Resolve(StartCwd, PathOf(v[2]))

Terminal == pc \in {"success", "failed"}

\* ---------------------------------------------------------------------- C1
\* C1 as stated: when work() raised, main has printed the rendering of that
\* failure and the failure leaving main is the one work() raised.
C1_AnyWorkFailurePrinted ==
  (pc = "failed" /\ exc.stage = "work") =>
     /\ propagated = exc
     /\ stdout = <<Render(exc)>>

\* C1 amended: a failure raised by work() always leaves main unchanged; its
\* rendering is printed (once) exactly when it is an instance of Exception,
\* while a SystemExit or KeyboardInterrupt passes the handler unprinted.
C1_WorkFailurePropagates ==
  (pc = "failed" /\ exc.stage = "work") =>
     /\ propagated = exc
     /\ workCalls = 1
     /\ stdout = IF IsException(exc) THEN <<Render(exc)>> ELSE << >>

C1_Witness ==
  /\ pc = "failed"
  /\ exc = Exc("Error", "work")
  /\ propagated = exc
  /\ stdout = <<Render(exc)>>

\* ---------------------------------------------------------------------- C2
\* C2 as stated: whatever the stage and the kind of the failure, the run that
\* failed has printed the rendering exactly once and re-raised the failure.
C2_EveryFailurePrintedOnce ==
  pc = "failed" => (stdout = <<Render(exc)>> /\ propagated = exc)

\* C2 amended: in every stage, a failure that is an instance of Exception is
\* caught once, printed exactly once and re-raised; a failure outside the
\* Exception hierarchy is not caught and not printed but still ends the run
\* in the Failed state; nothing is printed on any other path.
C2_ExceptionsPrintedOnce ==
  /\ pc = "failed" =>
       /\ exc # NoExc
       /\ propagated = exc
       /\ stdout = IF IsException(exc) THEN <<Render(exc)>> ELSE << >>
  /\ pc # "failed" => (stdout = << >> /\ propagated = NoExc)
  /\ pc = "except" => IsException(exc)

C2_Witness ==
  /\ pc = "failed"
  /\ exc = Exc("Error", "load")
  /\ Len(stdout) = 1
  /\ stdout[1].exc = exc

\* ---------------------------------------------------------------------- C3
StagingMissing == Len(args) >= 2 /\ ~Exists(StageDirOf(args))

\* C3: when the directory named by args[1] does not exist, the run fails at
\* the assert: the only file system call is the existence test of that
\* directory, the working directory never changes, nothing is extracted,
\* opened or unpickled and work() is not called.
C3_NoAccessWhenStagingMissing ==
  StagingMissing =>
     /\ pc \in {"start", "logging", "precheck", "except", "failed"}
     /\ \A i \in 1..Len(accessLog) :
          accessLog[i] = [op |-> "exists", path |-> StageDirOf(args)]
     /\ cwd = StartCwd
     /\ extractOutcome = "none"
     /\ loadCalls = 0
     /\ workCalls = 0
     /\ Terminal => (pc = "failed" /\ exc = Exc("AssertionError", "precondition"))

C3_Witness ==
  /\ StagingMissing
  /\ tarball
  /\ Len(args) >= 4
  /\ pc = "failed"
  /\ Len(accessLog) = 1

\* ---------------------------------------------------------------------- C4
\* the blob named by the job identifier args[3] is not in the staging directory
BlobAbsent ==
  /\ Len(args) >= 4
  /\ Append(StageDirOf(args), BlobName(args[4])) \notin files

OpenedBlob ==
  \E i \in 1..Len(accessLog) :
     accessLog[i].op = "open" /\ accessLog[i].path \in files

\* C4: a run whose blob file is absent never unpickles and never calls
\* work(), and it ends Failed with the failure printed; in every run a call
\* of work() comes after the blob was opened and unpickled.
C4_NoWorkWithoutBlob ==
  /\ BlobAbsent =>
       /\ workCalls = 0
       /\ loadCalls = 0
       /\ job = NoVal
       /\ Terminal => (pc = "failed" /\ stdout = <<Render(exc)>>)
  /\ (workCalls > 0 \/ pc = "work") =>
       (OpenedBlob /\ loadCalls = 1 /\ job = "task")

C4_Witness ==
  /\ BlobAbsent
  /\ pc = "failed"
  /\ exc = Exc("IOError", "open")
  /\ stdout = <<Render(exc)>>

\* ---------------------------------------------------------------------- C5
IsPositional(t) == t \notin Flags

\* the non-flag arguments after the program name, in order
Positionals(v) == IF v = << >> THEN << >> ELSE SelectSeq(Tail(v), IsPositional)

\* C5 as stated: wherever the flags stand, the staging directory, project
\* directory and job identifier main uses are the first, second and third
\* non-flag arguments.
C5_PositionalsSkipFlags ==
  /\ (work_dir # NoVal /\ Len(Positionals(args)) >= 1) =>
        work_dir = Positionals(args)[1]
  /\ (project_dir # NoVal /\ Len(Positionals(args)) >= 2) =>
        project_dir = Positionals(args)[2]
  /\ (random_id # NoVal /\ Len(Positionals(args)) >= 3) =>
        random_id = Positionals(args)[3]

FlagsAfterPositionals == \A i \in 2..4 : i <= Len(args) => args[i] \notin Flags

\* C5 amended: the flags are recognised anywhere in the vector, but the
\* staging directory, project directory and job identifier are the elements
\* at the fixed indices 1, 2 and 3; they are the first three non-flag
\* arguments only when no flag stands at an index below 4.
C5_PositionalsAtFixedIndices ==
  /\ pc # "start" => /\ debug = ("--debug" \in Range(args))
                     /\ tarball = ("--tarball" \in Range(args))
  /\ work_dir # NoVal => work_dir = args[2]
  /\ project_dir # NoVal => project_dir = args[3]
  /\ random_id # NoVal => random_id = args[4]
  /\ (random_id # NoVal /\ FlagsAfterPositionals) =>
        <<work_dir, project_dir, random_id>> = SubSeq(Positionals(args), 1, 3)
  /\ pc \in {"project", "enter"} => work_dir # NoVal
  /\ pc \in {"enter", "extract", "extracted", "open", "load", "loaded", "work",
             "success"} => random_id # NoVal

C5_Witness ==
  /\ pc = "success"
  /\ debug /\ tarball
  /\ <<work_dir, project_dir, random_id>> = SubSeq(Positionals(args), 1, 3)

\* ---------------------------------------------------------------------- C6
\* the directory os.chdir(work_dir) of line 59 changes into
StagingCwd == Resolve(savedCwd, PathOf(work_dir))

\* the Task Materializer (lines 58-68) has ended, normally or by raising
MaterializerEnded == pc = "work" \/ exc.stage \in {"open", "load"}

\* C6 as stated: after the Materializer ended, by success or by failure, the
\* working directory is the one it had before the change into the staging
\* directory.
C6_CwdRestoredAlways == MaterializerEnded => cwd = savedCwd

\* C6 amended: after a successful deserialization the working directory is
\* the one from before the change into the staging directory; after a failed
\* open or a failed deserialization it is left at the staging directory.
C6_CwdRestoredOnSuccess ==
  /\ pc = "work" => cwd = savedCwd
  /\ exc.stage \in {"open", "load"} => cwd = StagingCwd

C6_Witness ==
  /\ pc = "work"
  /\ cwd = savedCwd
  /\ StagingCwd # savedCwd
  /\ accessLog[Len(accessLog)].op = "chdir"

\* ---------------------------------------------------------------------- C7
\* C7 as stated: after _extract_packages_archive ended, whatever the outcome,
\* the working directory is the one at its entry (savedCwd: nothing changes
\* the directory between line 50 and the call of line 53).
C7_ExtractRestoresAlways ==
  (extractOutcome # "none" /\ (pc = "extracted" \/ exc.stage = "extract")) =>
     cwd = savedCwd

\* C7 amended: when the extractor returns (archive absent, or extraction
\* completed) the working directory is the one at its entry; when opening or
\* extracting the archive raises, it is left at the staging directory.
C7_ExtractRestoresOnReturn ==
  /\ (pc = "extracted" /\ extractOutcome \in {"absent", "done"}) => cwd = savedCwd
  /\ extractOutcome = "raised" => (exc.stage = "extract" /\ cwd = StagingCwd)

C7_Witness ==
  /\ pc = "extracted"
  /\ extractOutcome = "done"
  /\ cwd = savedCwd
  /\ StagingCwd # savedCwd

\* ---------------------------------------------------------------------- C8
\* --tarball was given, the staging directory exists and holds a readable
\* packages.tar, and the extractor has run
ExtractedPresentArchive ==
  /\ tarball
  /\ extractOutcome # "none"
  /\ StageDirOf(args) \in dirs
  /\ Append(StageDirOf(args), "packages.tar") \in files
  /\ tarValid

\* C8: with --tarball and a packages.tar present, for an absolute as for a
\* relative staging directory, extraction completes, every entry of the
\* archive is a file under the staging directory, and the working directory
\* after extraction is the one before it.
C8_ExtractionCompletes ==
  ExtractedPresentArchive =>
     /\ extractOutcome = "done"
     /\ Extracted(StageDirOf(args), Len(tarEntries)) \subseteq files
     /\ pc = "extracted" => cwd = savedCwd
     /\ exc.stage # "extract"

\* ---------------------------------------------------------------------- C9
\* C9: whenever work() is invoked the working directory is the one the
\* process was started in, whatever the flags and whether or not an archive
\* was extracted.
C9_WorkRunsInStartCwd ==
  /\ pc = "work" => cwd = StartCwd
  /\ workCalls > 0 => cwdAtWork = StartCwd

C9_Witness ==
  /\ workCalls = 1
  /\ cwdAtWork = StartCwd
  /\ extractOutcome = "done"
  /\ StageDirOf(args) # StartCwd

\* --------------------------------------------------------------------- C10
\* the stage of the state machine of the whole system the run is in
Stage(p) ==
  CASE p \in {"start", "logging"} -> "Start"
    [] p \in {"precheck", "project", "enter"} -> "PreconditionCheck"
    [] p = "extract" -> "ArchiveExtraction"
    [] p \in {"extracted", "open", "load", "loaded"} -> "TaskDeserialization"
    [] p = "work" -> "TaskExecution"
    [] p = "success" -> "Success"
    [] OTHER -> "Failed"

StageSteps ==
  {<<"Start", "PreconditionCheck">>,
   <<"PreconditionCheck", "ArchiveExtraction">>,
   <<"PreconditionCheck", "TaskDeserialization">>,
   <<"ArchiveExtraction", "TaskDeserialization">>,
   <<"TaskDeserialization", "TaskExecution">>,
   <<"TaskExecution", "Success">>}

\* C10: every step of a run stays in its stage, moves to the next stage of
\* Start, PreconditionCheck, [ArchiveExtraction], TaskDeserialization,
\* TaskExecution, Success, or moves to Failed; nothing follows Success or
\* Failed; the blob is unpickled at most once and work() is called at most
\* once.
C10_StageOrder ==
  [][/\ \/ Stage(pc') = Stage(pc)
        \/ <<Stage(pc), Stage(pc')>> \in StageSteps
        \/ Stage(pc') = "Failed" /\ Stage(pc) # "Success"
     /\ pc \in {"success", "failed"} => pc' = pc
     /\ loadCalls' \in {loadCalls, loadCalls + 1} /\ loadCalls' <= 1
     /\ workCalls' \in {workCalls, workCalls + 1} /\ workCalls' <= 1
     /\ loadCalls' > loadCalls => Stage(pc) = "TaskDeserialization"
     /\ workCalls' > workCalls => Stage(pc) = "TaskExecution"]_vars

C10_Witness ==
  /\ pc = "success"
  /\ extractOutcome = "done"
  /\ loadCalls = 1
  /\ workCalls = 1

\* --------------------------------------------------------------------- C11
\* C11: main returns normally only when the staging directory existed, the
\* extractor (run exactly when --tarball is given) did not raise, the blob
\* was opened and unpickled and work() was called once and returned; on
\* that path nothing was raised and nothing was written to standard output.
C11_SuccessOnlyIfAllStagesPassed ==
  pc = "success" =>
     /\ Len(args) >= 4
     /\ StageDirOf(args) \in dirs
     /\ tarball <=> extractOutcome \in {"absent", "done"}
     /\ extractOutcome # "raised"
     /\ OpenedBlob
     /\ loadCalls = 1
     /\ job = "task"
     /\ workCalls = 1
     /\ exc = NoExc
     /\ propagated = NoExc
     /\ stdout = << >>

C11_Witness ==
  /\ pc = "success"
  /\ ~tarball
  /\ ~debug
  /\ workCalls = 1
  /\ stdout = << >>

\* --------------------------------------------------------------------- C12
\* --tarball was given, the extractor has run and the staging directory held
\* no packages.tar
ExtractedAbsentArchive ==
  /\ tarball
  /\ extractOutcome # "none"
  /\ Append(StageDirOf(args), "packages.tar") \notin files0

\* C12: with --tarball and no packages.tar the extractor does nothing (it
\* raises nothing and leaves the working directory, sys.path and the files
\* of the staging directory as they were) and the run goes on to open the
\* blob.
C12_AbsentArchiveIsNoOp ==
  ExtractedAbsentArchive =>
     /\ extractOutcome = "absent"
     /\ exc.stage # "extract"
     /\ files = files0
     /\ sysPath = <<"script_dir", project_dir>>
     /\ pc = "extracted" => cwd = savedCwd
     /\ accessLog[2] = [op |-> "exists",
                        path |-> Append(StageDirOf(args), "packages.tar")]
     /\ Len(accessLog) >= 3 => accessLog[3].op = "chdir"
     /\ Terminal => \E i \in 1..Len(accessLog) : accessLog[i].op = "open"

C12_Witness ==
  /\ ExtractedAbsentArchive
  /\ extractOutcome = "absent"
  /\ pc = "load"
  /\ files = files0

\* --------------------------------------------------------------------- C13
\* C13: once a present archive has been extracted, the staging directory is
\* among the directories sys.path names, while the blob is unpickled and
\* when work() is invoked.
C13_StagingOnSearchPath ==
  (extractOutcome = "done" /\ pc \in {"load", "work"}) =>
     StageDirOf(args) \in SearchRoots(cwd)

\* --------------------------------------------------------------------- C14
PreconditionFailed == pc = "failed" /\ exc = Exc("AssertionError", "precondition")

\* C14 as stated: the rendering of the precondition failure that main prints
\* contains the staging directory path given as args[1].
C14_MessageNamesPath ==
  PreconditionFailed => work_dir \in Range(stdout[1].text)

\* C14 amended: the precondition failure that main prints and propagates is
\* the AssertionError whose rendering is the fixed text "First argument to
\* sge_runner.py must be a directory that exists"; the text does not
\* contain the path.
C14_MessageIsFixedText ==
  PreconditionFailed =>
     /\ propagated = exc
     /\ Len(stdout) = 1
     /\ stdout[1].exc = exc
     /\ stdout[1].text =
          <<"First argument to sge_runner.py must be a directory that exists">>
     /\ work_dir \notin Range(stdout[1].text)

C14_Witness ==
  /\ PreconditionFailed
  /\ work_dir = "stage"
  /\ Len(stdout) = 1
  /\ Len(stdout[1].text) = 1

\* --------------------------------------------------------------------- C15
\* C15: the logging threshold is set to WARN before the existence check of
\* the staging directory, the append to sys.path, the extraction, the
\* unpickling and work(): as long as it is not set none of them has happened,
\* and it is set in every later position of the run.
C15_LoggingConfiguredFirst ==
  /\ logLevel # "WARN" =>
       /\ pc \in {"start", "logging"}
       /\ accessLog = << >>
       /\ sysPath = <<"script_dir">>
       /\ work_dir = NoVal
       /\ extractOutcome = "none"
       /\ loadCalls = 0
       /\ workCalls = 0
       /\ exc = NoExc
  /\ pc \notin {"start", "logging"} => logLevel = "WARN"

C15_Witness ==
  /\ logLevel = "WARN"
  /\ pc = "precheck"
  /\ accessLog = << >>
  /\ sysPath = <<"script_dir">>

\* --------------------------------------------------------------------- C16
DebugLines ==
  <<"starting at", "extracted tar after", "loaded pickled data after">>

\* C16: the error stream holds diagnostic lines only under --debug; under
\* --debug it holds a prefix of 'starting at', 'extracted tar after',
\* 'loaded pickled data after' (each at most once, in that order), the
\* 'loaded' line being there only after a successful unpickling and always
\* before work() is invoked; without --debug the error stream stays empty.
C16_DebugLinesOnlyWithDebug ==
  /\ "--debug" \notin Range(args) => stderr = << >>
  /\ \E k \in 0..3 : stderr = SubSeq(DebugLines, 1, k)
  /\ Len(stderr) = 3 => (job = "task" /\ loadCalls = 1)
  /\ ("--debug" \in Range(args) /\ (pc = "work" \/ workCalls > 0)) =>
        stderr = DebugLines
  /\ ("--debug" \in Range(args) /\ pc # "start") => Len(stderr) >= 1
  /\ pc = "loaded" => Len(stderr) < 3

C16_Witness ==
  /\ "--debug" \in Range(args)
  /\ stderr = DebugLines
  /\ pc = "work"
  /\ workCalls = 0

C19_RunTerminates ==
  /\ (<>[](pc = "success")) \/ (<>[](pc = "failed"))
  /\ [](loadCalls <= 1 /\ workCalls <= 1)

C19_Witness ==
  /\ pc = "failed"
  /\ exc = Exc("SystemExit", "work")
  /\ workCalls = 1
  /\ loadCalls = 1

====
